---- MODULE Spec2Model ----
(***************************************************************************)
(* file-commander: the directory panel (src/main.rs) and the modal file    *)
(* viewer (src/viewer.rs) as one state machine.                            *)
(*                                                                         *)
(* Indices (selected, scroll_offset) and file offsets are 0-based as in    *)
(* the source; TLA+ sequences are 1-based, so element i of a Vec is        *)
(* seq[i + 1].  File names and file contents are sequences of byte values. *)
(***************************************************************************)
EXTENDS Integers, Sequences, FiniteSets, TLC

VARIABLES
    fs,             \* the filesystem being browsed (fixed during a run)
    scr_rows,       \* getmaxy(stdscr()): terminal height
    scr_cols,       \* getmaxx(stdscr()): terminal width
    win_height,     \* getmaxy(dirview.window)
    win_startx,     \* getbegx(dirview.window)
    win_width,      \* getmaxx(dirview.window)
    selected,       \* DirView.selected
    scroll_offset,  \* DirView.scroll_offset
    dirents,        \* DirView.dirents: Ok(list) or Err
    path,           \* DirView.path
    dirty,          \* DirView.dirty
    rendered,       \* what DirView::draw painted last (<<>> before the first draw)
    alert,          \* beep() was called while handling the latest key
    pc,             \* "draw" | "getch" (main loop), "viewer" (modal loop), "done"
    vfile,          \* index into Files of the file open in the viewer (0: none)
    vwin_height,    \* getmaxy(window) of the viewer's text window
    line_offsets,   \* the viewer's VecDeque<u64>
    rpos            \* stream position of the viewer's BufReader

dirvars == <<selected, scroll_offset, dirents, path, dirty>>
viewvars == <<vfile, vwin_height, line_offsets, rpos>>
screenvars == <<scr_rows, scr_cols, win_height, win_startx, win_width>>
vars == <<fs, scr_rows, scr_cols, win_height, win_startx, win_width,
          selected, scroll_offset, dirents, path, dirty, rendered, alert, pc,
          vfile, vwin_height, line_offsets, rpos>>

(***************************************************************************)
(* Bounds                                                                  *)
(***************************************************************************)
\* Largest terminal height delivered by a resize event.
MaxRows == 5

\* DirView::new rejects a window lower than this.
MinRows == 3

Rows == MinRows..MaxRows

\* The wider of the two terminal widths a run moves between.
MaxCols == 6

\* DirView::new rejects a window narrower than 3 columns, and the panel takes
\* the right half of the terminal: max_x - max_x / 2 >= 3.
MinCols == 5

\* The terminal is as narrow as the panel allows or wider: two widths tell a
\* window laid out for the current width from one laid out for another.
Cols == {MinCols, MaxCols}

(***************************************************************************)
(* Small helpers                                                            *)
(***************************************************************************)
Max2(a, b) == IF a >= b THEN a ELSE b

Min2(a, b) == IF a <= b THEN a ELSE b

SetMax(S) == CHOOSE x \in S : \A y \in S : y <= x

SetMin(S) == CHOOSE x \in S : \A y \in S : x <= y

Last(s) == s[Len(s)]

Front(s) == SubSeq(s, 1, Len(s) - 1)

\* VecDeque::truncate / Vec::truncate
Truncate(s, n) == IF Len(s) > n THEN SubSeq(s, 1, n) ELSE s

(***************************************************************************)
(* File names and the filesystem                                           *)
(***************************************************************************)
LF == 10

CR == 13

Name_a_txt == <<97, 46, 116, 120, 116>>

Name_b_txt == <<98, 46, 116, 120, 116>>

Name_c == <<99>>

Name_t == <<116>>

Name_Lock == <<76>>

\* A populated tree: / holds the unreadable directory L and the directory t;
\* /t holds b.txt, a.txt and the empty directory c.
FsTree ==
    [ dirs     |-> { <<>>, <<Name_t>>, <<Name_t, Name_c>>, <<Name_Lock>> },
      readable |-> { <<>>, <<Name_t>>, <<Name_t, Name_c>> },
      files    |-> { <<Name_t, Name_b_txt>>, <<Name_t, Name_a_txt>> } ]

\* An empty root directory.
FsEmptyRoot ==
    [ dirs |-> { <<>> }, readable |-> { <<>> }, files |-> {} ]

\* A root directory that cannot be read.
FsLockedRoot == [dirs |-> { <<>> }, readable |-> {}, files |-> {}]

FileSystems == { FsTree, FsEmptyRoot, FsLockedRoot }

\* Path::parent is Some for every path but the root (the empty sequence of
\* components), and is then the path less its last component.
HasParent(p) == Len(p) > 0

Parent(p) == Front(p)

\* Path::is_dir (follows links; true for a directory that cannot be read)
IsDir(f, p) == p \in f.dirs

Children(f, p) ==
    { q \in f.dirs \cup f.files : Len(q) = Len(p) + 1 /\ Front(q) = p }

\* OsString ordering: byte-wise lexicographic.
RECURSIVE LexLess(_, _)
LexLess(a, b) ==
    IF Len(b) = 0 THEN FALSE
    ELSE IF Len(a) = 0 THEN TRUE
    ELSE IF a[1] # b[1] THEN a[1] < b[1]
    ELSE LexLess(Tail(a), Tail(b))

\* DirEntry::file_name
FileName(entryPath) == Last(entryPath)

\* The orders in which fs::read_dir may yield the entries of a directory.
ReadDirOrders(f, p) ==
    LET S == Children(f, p)
        n == Cardinality(S)
    IN  { s \in [1..n -> S] : \A i, j \in 1..n : i # j => s[i] # s[j] }

\* entries.sort_by_key(|e| e.file_name()): a stable sort, as an insertion sort.
RECURSIVE InsertByName(_, _)
InsertByName(sorted, e) ==
    IF sorted = <<>> THEN <<e>>
    ELSE IF LexLess(FileName(e), FileName(sorted[1]))
         THEN <<e>> \o sorted
         ELSE <<sorted[1]>> \o InsertByName(Tail(sorted), e)

RECURSIVE SortByName(_)
SortByName(s) ==
    IF s = <<>> THEN <<>>
    ELSE InsertByName(SortByName(Front(s)), Last(s))

\* read_directory_contents without its sort
read_directory_contents_unsorted(order) == order

\* read_directory_contents on the entries as read_dir yielded them
read_directory_contents(order) == SortByName(order)

ParentDir(p) == [tag |-> "ParentDir", path |-> p]

Entry(p) == [tag |-> "Entry", path |-> p]

OkList(list) == [ok |-> TRUE, list |-> list]

ErrList == [ok |-> FALSE, list |-> <<>>]

\* DirView::reload pushing the ParentDir item after the entries
reload_parent_last(f, p, order) ==
    LET elts == IF HasParent(p) THEN <<ParentDir(Parent(p))>> ELSE <<>>
    IN  IF p \in f.readable
        THEN OkList([i \in 1..Len(order) |->
                        Entry(read_directory_contents(order)[i])] \o elts)
        ELSE ErrList

\* The value DirView::reload stores in dirents for directory p, when read_dir
\* yields the entries in the given order.
reload(f, p, order) ==
    LET elts == IF HasParent(p) THEN <<ParentDir(Parent(p))>> ELSE <<>>
    IN  IF p \in f.readable
        THEN OkList(elts \o [i \in 1..Len(order) |->
                                Entry(read_directory_contents(order)[i])])
        ELSE ErrList

\* DirView::load forgetting to reset the viewport
load_keep_viewport(p) ==
    /\ path' = p
    /\ \E order \in ReadDirOrders(fs, p) : dirents' = reload(fs, p, order)
    /\ UNCHANGED <<selected, scroll_offset>>
    /\ dirty' = TRUE

\* DirView::load: the new path, a fresh listing, the viewport reset.
load(p) ==
    /\ path' = p
    /\ \E order \in ReadDirOrders(fs, p) : dirents' = reload(fs, p, order)
    /\ selected' = 0
    /\ scroll_offset' = 0
    /\ dirty' = TRUE

\* (getmaxy(dirview.window) - 2) as usize
view_height == win_height - 2

NoViewer ==
    /\ vfile = 0
    /\ vwin_height = 0
    /\ line_offsets = <<>>
    /\ rpos = 0

(***************************************************************************)
(* Initial state: main() up to the first iteration of its loop.            *)
(***************************************************************************)
Init ==
    /\ fs \in FileSystems
    /\ scr_rows \in Rows
    /\ scr_cols \in Cols
    /\ win_height = scr_rows
    /\ win_startx = scr_cols \div 2
    /\ win_width = scr_cols - scr_cols \div 2
    /\ \E cwd \in fs.dirs :
          /\ path = cwd
          /\ \E order \in ReadDirOrders(fs, cwd) : dirents = reload(fs, cwd, order)
    /\ selected = 0
    /\ scroll_offset = 0
    /\ dirty = TRUE
    /\ rendered = <<>>
    /\ alert = FALSE
    /\ pc = "draw"
    /\ NoViewer

(***************************************************************************)
(* The directory panel                                                     *)
(***************************************************************************)
\* The rows DirView::draw paints: the indices it iterates over and the one it
\* paints in reverse video.
VisibleRows(d, off, h) ==
    IF d.ok THEN { i \in 0..(Len(d.list) - 1) : i >= off /\ i < off + h }
    ELSE {}

Highlighted(d, sel, off, h) == { i \in VisibleRows(d, off, h) : i = sel }

\* is_openable_dir: fs::metadata says the entry is a directory.  The source
\* does not try to open it.
is_openable_dir(f, p) == IsDir(f, p)

\* OsStr::to_string_lossy on a file name; the names of the model are ASCII,
\* which it hands back byte for byte.
to_string_lossy(name) == name

\* display_name: the name, in square brackets when is_openable_dir
display_name(f, p) ==
    IF is_openable_dir(f, p)
    THEN <<91>> \o to_string_lossy(FileName(p)) \o <<93>>
    ELSE to_string_lossy(FileName(p))

\* "[..]"
ParentDirText == <<91, 46, 46, 93>>

\* One row as DirView::draw paints it: its text, whether it is in the
\* directory colour (COLOR_PAIR(2)) and whether it is in reverse video.
DrawnRow(f, item, isSelected) ==
    IF item.tag = "ParentDir"
    THEN [text |-> ParentDirText, dir_colour |-> TRUE, reverse |-> isSelected]
    ELSE [text |-> display_name(f, item.path),
          dir_colour |-> is_openable_dir(f, item.path),
          reverse |-> isSelected]

\* The rows DirView::draw paints, by index into the listing; for a stored
\* read error, the one "[..]" row above the error text.
DrawnRows(f, d, sel, off, h) ==
    IF d.ok
    THEN [i \in VisibleRows(d, off, h) |-> DrawnRow(f, d.list[i + 1], i = sel)]
    ELSE [i \in {0} |-> [text |-> ParentDirText, dir_colour |-> TRUE,
                         reverse |-> TRUE]]

DirDraw ==
    /\ pc = "draw"
    /\ pc' = "getch"
    /\ IF dirty
       THEN /\ rendered' = << [path |-> path, dirents |-> dirents,
                               selected |-> selected,
                               scroll_offset |-> scroll_offset,
                               view_height |-> view_height,
                               rows |-> DrawnRows(fs, dirents, selected,
                                                  scroll_offset, view_height)] >>
            /\ dirty' = FALSE
       ELSE UNCHANGED <<rendered, dirty>>
    /\ UNCHANGED <<fs, screenvars, selected, scroll_offset, dirents,
                   path, alert, viewvars>>

\* scroll_down scrolling one key press late: > for >= in the window test
scroll_down_late ==
    /\ pc = "getch"
    /\ pc' = "draw"
    /\ IF dirents.ok /\ selected + 1 < Len(dirents.list)
       THEN /\ selected' = selected + 1
            /\ scroll_offset' = IF selected + 1 > scroll_offset + view_height
                                THEN scroll_offset + 1
                                ELSE scroll_offset
            /\ dirty' = TRUE
            /\ alert' = FALSE
       ELSE /\ alert' = TRUE
            /\ UNCHANGED <<selected, scroll_offset, dirty>>
    /\ UNCHANGED <<fs, screenvars, dirents, path, rendered, viewvars>>

\* scroll_down moving past the last entry: <= for < in the boundary test
scroll_down_past ==
    /\ pc = "getch"
    /\ pc' = "draw"
    /\ IF dirents.ok /\ selected + 1 <= Len(dirents.list)
       THEN /\ selected' = selected + 1
            /\ scroll_offset' = IF selected + 1 >= scroll_offset + view_height
                                THEN scroll_offset + 1
                                ELSE scroll_offset
            /\ dirty' = TRUE
            /\ alert' = FALSE
       ELSE /\ alert' = TRUE
            /\ UNCHANGED <<selected, scroll_offset, dirty>>
    /\ UNCHANGED <<fs, screenvars, dirents, path, rendered, viewvars>>

\* scroll_down (main.rs)
scroll_down ==
    /\ pc = "getch"
    /\ pc' = "draw"
    /\ IF dirents.ok /\ selected + 1 < Len(dirents.list)
       THEN /\ selected' = selected + 1
            /\ scroll_offset' = IF selected + 1 >= scroll_offset + view_height
                                THEN scroll_offset + 1
                                ELSE scroll_offset
            /\ dirty' = TRUE
            /\ alert' = FALSE
       ELSE /\ alert' = TRUE
            /\ UNCHANGED <<selected, scroll_offset, dirty>>
    /\ UNCHANGED <<fs, screenvars, dirents, path, rendered, viewvars>>

\* scroll_up (main.rs)
scroll_up ==
    /\ pc = "getch"
    /\ pc' = "draw"
    /\ IF dirents.ok /\ selected > 0
       THEN /\ selected' = selected - 1
            /\ scroll_offset' = IF selected - 1 < scroll_offset
                                THEN scroll_offset - 1
                                ELSE scroll_offset
            /\ dirty' = TRUE
            /\ alert' = FALSE
       ELSE /\ alert' = TRUE
            /\ UNCHANGED <<selected, scroll_offset, dirty>>
    /\ UNCHANGED <<fs, screenvars, dirents, path, rendered, viewvars>>

\* The item Enter acts on: elements.get(dirview.selected)
SelectedItem == dirents.list[selected + 1]

HasSelectedItem == dirents.ok /\ selected < Len(dirents.list)

\* Enter on the ParentDir item
EnterParent ==
    /\ pc = "getch"
    /\ HasSelectedItem
    /\ SelectedItem.tag = "ParentDir"
    /\ load(SelectedItem.path)
    /\ pc' = "draw"
    /\ alert' = FALSE
    /\ UNCHANGED <<fs, screenvars, rendered, viewvars>>

\* Enter on an entry that is a directory
EnterDir ==
    /\ pc = "getch"
    /\ HasSelectedItem
    /\ SelectedItem.tag = "Entry"
    /\ IsDir(fs, SelectedItem.path)
    /\ load(SelectedItem.path)
    /\ pc' = "draw"
    /\ alert' = FALSE
    /\ UNCHANGED <<fs, screenvars, rendered, viewvars>>

\* Enter with an empty listing: no entry at the selected index
EnterNone ==
    /\ pc = "getch"
    /\ dirents.ok
    /\ ~HasSelectedItem
    /\ pc' = "draw"
    /\ alert' = FALSE
    /\ UNCHANGED <<fs, screenvars, dirvars, rendered, viewvars>>

\* Enter on a stored read error loading the panel's own path again
EnterErr_retry ==
    /\ pc = "getch"
    /\ ~dirents.ok
    /\ load(path)
    /\ pc' = "draw"
    /\ alert' = FALSE
    /\ UNCHANGED <<fs, screenvars, rendered, viewvars>>

\* Enter while a read error is stored
EnterErr ==
    /\ pc = "getch"
    /\ ~dirents.ok
    /\ IF HasParent(path)
       THEN load(Parent(path))
       ELSE UNCHANGED dirvars
    /\ pc' = "draw"
    /\ alert' = FALSE
    /\ UNCHANGED <<fs, screenvars, rendered, viewvars>>

\* DirView::resize without self.dirty = true
DirKeyResize_clean ==
    /\ pc = "getch"
    /\ \E rows \in Rows, cols \in Cols :
          /\ scr_rows' = rows
          /\ scr_cols' = cols
          /\ win_height' = rows
          /\ win_startx' = cols \div 2
          /\ win_width' = cols - cols \div 2
    /\ pc' = "draw"
    /\ alert' = FALSE
    /\ UNCHANGED <<fs, dirvars, rendered, viewvars>>

\* DirView::resize under the KEY_RESIZE arm of main: the window takes the
\* terminal's new height and the right half of its new width.
DirKeyResize ==
    /\ pc = "getch"
    /\ \E rows \in Rows, cols \in Cols :
          /\ scr_rows' = rows
          /\ scr_cols' = cols
          /\ win_height' = rows
          /\ win_startx' = cols \div 2
          /\ win_width' = cols - cols \div 2
    /\ dirty' = TRUE
    /\ pc' = "draw"
    /\ alert' = FALSE
    /\ UNCHANGED <<fs, selected, scroll_offset, dirents, path, rendered, viewvars>>

\* What wgetch has done to one dimension of a window by the time it returns
\* KEY_RESIZE: ncurses' resizeterm makes a window that was as large as the
\* old terminal as large as the new one and clips a larger one; it moves no
\* window sideways.
resizeterm_adjust(size, cur, to) ==
    LET followed == IF size = cur /\ to # cur THEN to ELSE size
    IN  IF followed > to THEN to ELSE followed

\* 'q' or Escape in the main loop
DirKeyQuit ==
    /\ pc = "getch"
    /\ pc' = "done"
    /\ alert' = FALSE
    /\ UNCHANGED <<fs, screenvars, dirvars, rendered, viewvars>>

\* any other key in the main loop
DirKeyOther ==
    /\ pc = "getch"
    /\ pc' = "draw"
    /\ alert' = FALSE
    /\ UNCHANGED <<fs, screenvars, dirvars, rendered, viewvars>>

(***************************************************************************)
(* File contents                                                           *)
(***************************************************************************)
\* find_prev_line_start steps back at most this many bytes.
ChunkSize == 4096

\* "one\n" "two\n" "three"
FileThree == <<111, 110, 101, LF, 116, 119, 111, LF, 116, 104, 114, 101, 101>>

FileEmpty == <<>>

\* "a\n" "bb\r\n" "\n" "ccc\n" "dd\n" "e\n": lines start at 0, 2, 6, 7, 11, 14
FileShort ==
    <<97, LF, 98, 98, CR, LF, LF, 99, 99, 99, LF, 100, 100, LF, 101, LF>>

\* n bytes 'y'
LongRun(n) == [i \in 1..n |-> 121]

\* "x\n", a line of ChunkSize - 1 bytes 'y' and its '\n', "z\n", "w\n"
FileEdge ==
    <<120, LF>> \o LongRun(ChunkSize - 1) \o <<LF, 122, LF, 119, LF>>

\* "x\n", a line of ChunkSize + 1 bytes 'y' and its '\n', "z\n", "w\n"
FileLong ==
    <<120, LF>> \o LongRun(ChunkSize + 1) \o <<LF, 122, LF, 119, LF>>

\* a first line of ChunkSize + 1 bytes 'y' and its '\n', "z\n", "w\n"
FileLongFirst == LongRun(ChunkSize + 1) \o <<LF, 122, LF, 119, LF>>

\* The files File::open may find behind a file entry.
Files == <<FileThree, FileEmpty, FileShort, FileEdge, FileLong, FileLongFirst>>

\* The files shorter than a chunk, and the files with a line about as long
\* as a chunk.
FileIds == { k \in 1..Len(Files) : Len(Files[k]) < ChunkSize }

LongFileIds == { k \in 1..Len(Files) : Len(Files[k]) >= ChunkSize }

FileLen(k) == Len(Files[k])

\* The offsets of the '\n' bytes of each file.
NewlineAt ==
    [k \in 1..Len(Files) |->
        { i \in 0..(Len(Files[k]) - 1) : Files[k][i + 1] = LF }]

\* BufRead::read_line at stream position pos: the number of bytes consumed, up
\* to and including the first '\n' at or after pos, or up to end of file.
read_line(k, pos) ==
    IF pos >= FileLen(k) THEN 0
    ELSE LET nl == { i \in NewlineAt[k] : i >= pos }
         IN  IF nl = {} THEN FileLen(k) - pos ELSE SetMin(nl) + 1 - pos

\* find_prev_line_start without the -1 that skips the newline ending the
\* previous line: the chunk ends at file_pos instead of file_pos - 1
find_prev_line_start_noskip(k, file_pos) ==
    IF file_pos = 0 THEN 0
    ELSE LET backstep == Min2(ChunkSize, file_pos)
             seek_pos == file_pos - backstep
             n        == Min2(backstep, Max2(0, FileLen(k) - seek_pos))
             hits     == { i \in NewlineAt[k] : i >= seek_pos /\ i < seek_pos + n }
         IN  IF hits # {} THEN seek_pos + (SetMax(hits) - seek_pos) + 1
             ELSE 0

\* find_prev_line_start stepping back one byte less than the chunk
find_prev_line_start_short(k, file_pos) ==
    IF file_pos = 0 THEN 0
    ELSE LET backstep == Min2(ChunkSize - 1, file_pos - 1)
             seek_pos == file_pos - backstep - 1
             n        == Min2(backstep, Max2(0, FileLen(k) - seek_pos))
             hits     == { i \in NewlineAt[k] : i >= seek_pos /\ i < seek_pos + n }
         IN  IF hits # {} THEN seek_pos + (SetMax(hits) - seek_pos) + 1
             ELSE 0

\* find_prev_line_start (viewer.rs)
find_prev_line_start(k, file_pos) ==
    IF file_pos = 0 THEN 0
    ELSE LET backstep == Min2(ChunkSize, file_pos - 1)
             seek_pos == file_pos - backstep - 1
             n        == Min2(backstep, Max2(0, FileLen(k) - seek_pos))
             hits     == { i \in NewlineAt[k] : i >= seek_pos /\ i < seek_pos + n }
         IN  IF hits # {} THEN seek_pos + (SetMax(hits) - seek_pos) + 1
             ELSE 0

\* The loop of expand_rows: reads at the reader's position, records offsets
\* relative to the back of the deque.
RECURSIVE expand_loop(_, _, _, _)
expand_loop(k, offs, pos, n_lines) ==
    IF n_lines = 0 THEN [offs |-> offs, pos |-> pos]
    ELSE LET n_bytes == read_line(k, pos)
         IN  IF n_bytes = 0 THEN [offs |-> offs, pos |-> pos]
             ELSE expand_loop(k, Append(offs, Last(offs) + n_bytes),
                              pos + n_bytes, n_lines - 1)

\* expand_rows (viewer.rs)
expand_rows(k, offs, pos, h) ==
    expand_loop(k, offs, pos, Max2(1 + h - Len(offs), 0))

\* contract_rows truncating to two offsets fewer: the window height less one
contract_rows_short(offs, h) == Truncate(offs, h - 1)

\* contract_rows (viewer.rs)
contract_rows(offs, h) == Truncate(offs, 1 + h)

\* calc_extents (viewer.rs): the height of the viewer's frame; the text
\* window inside it is two rows lower.
calc_extents(rows) == Max2(rows, 3)

(***************************************************************************)
(* The modal file viewer                                                   *)
(***************************************************************************)
IsFileSelected ==
    /\ HasSelectedItem
    /\ SelectedItem.tag = "Entry"
    /\ ~IsDir(fs, SelectedItem.path)

\* Enter on a file that File::open cannot open: view_file_modal returns at once
EnterFileFails ==
    /\ pc = "getch"
    /\ IsFileSelected
    /\ dirty' = TRUE
    /\ pc' = "draw"
    /\ alert' = FALSE
    /\ UNCHANGED <<fs, screenvars, selected, scroll_offset, dirents,
                   path, rendered, viewvars>>

\* Enter on a file: view_file_modal up to its first wgetch
EnterFile ==
    /\ pc = "getch"
    /\ IsFileSelected
    /\ \E k \in FileIds :
          LET h == calc_extents(scr_rows) - 2
              r == expand_rows(k, <<0>>, 0, h)
          IN  /\ vfile' = k
              /\ vwin_height' = h
              /\ line_offsets' = r.offs
              /\ rpos' = r.pos
    /\ pc' = "viewer"
    /\ alert' = FALSE
    /\ UNCHANGED <<fs, screenvars, dirvars, rendered>>

\* Enter on a file with a line about as long as a chunk
EnterLongFile ==
    /\ pc = "getch"
    /\ IsFileSelected
    /\ \E k \in LongFileIds :
          LET h == calc_extents(scr_rows) - 2
              r == expand_rows(k, <<0>>, 0, h)
          IN  /\ vfile' = k
              /\ vwin_height' = h
              /\ line_offsets' = r.offs
              /\ rpos' = r.pos
    /\ pc' = "viewer"
    /\ alert' = FALSE
    /\ UNCHANGED <<fs, screenvars, dirvars, rendered>>

\* scroll_down (viewer.rs) on the deque offs of file k: the deque and the
\* reader's position afterwards, and whether it beeped.
viewer_scroll_down(k, offs) ==
    LET bot_file_pos == Last(offs)
        line_n_bytes == read_line(k, bot_file_pos)
    IN  IF line_n_bytes = 0
        THEN [beep |-> TRUE, offs |-> offs, pos |-> bot_file_pos]
        ELSE [beep |-> FALSE,
              offs |-> Append(Tail(offs), bot_file_pos + line_n_bytes),
              pos  |-> bot_file_pos + line_n_bytes]

\* scroll_up (viewer.rs) on the deque offs of file k with the reader at pos
viewer_scroll_up(k, offs, pos) ==
    IF offs[1] > 0
    THEN LET new_pos == find_prev_line_start(k, offs[1])
         IN  [beep |-> FALSE,
              offs |-> <<new_pos>> \o Front(offs),
              pos  |-> new_pos + read_line(k, new_pos)]
    ELSE [beep |-> FALSE, offs |-> offs, pos |-> pos]

\* The KEY_RESIZE arm of view_file_modal for a text window of h rows:
\* expand_rows, then contract_rows.
viewer_resize(k, offs, pos, h) ==
    LET r == expand_rows(k, offs, pos, h)
    IN  [offs |-> contract_rows(r.offs, h), pos |-> r.pos]

ViewerScrollDown ==
    /\ pc = "viewer"
    /\ LET r == viewer_scroll_down(vfile, line_offsets)
       IN  /\ alert' = r.beep
           /\ line_offsets' = r.offs
           /\ rpos' = r.pos
    /\ UNCHANGED <<fs, screenvars, dirvars, rendered, pc, vfile,
                   vwin_height>>

ViewerScrollUp ==
    /\ pc = "viewer"
    /\ LET r == viewer_scroll_up(vfile, line_offsets, rpos)
       IN  /\ alert' = r.beep
           /\ line_offsets' = r.offs
           /\ rpos' = r.pos
    /\ UNCHANGED <<fs, screenvars, dirvars, rendered, pc, vfile,
                   vwin_height>>

\* KEY_RESIZE in the viewer.  resize (viewer.rs) lays out the viewer's own
\* windows only; the panel's window is touched by nothing but wgetch itself.
ViewerResize ==
    /\ pc = "viewer"
    /\ \E rows \in Rows, cols \in Cols :
          LET h == calc_extents(rows) - 2
              r == viewer_resize(vfile, line_offsets, rpos, h)
          IN  /\ scr_rows' = rows
              /\ scr_cols' = cols
              /\ win_height' = resizeterm_adjust(win_height, scr_rows, rows)
              /\ win_width' = resizeterm_adjust(win_width, scr_cols, cols)
              /\ vwin_height' = h
              /\ line_offsets' = r.offs
              /\ rpos' = r.pos
    /\ alert' = FALSE
    /\ UNCHANGED <<fs, win_startx, dirvars, rendered, pc, vfile>>

\* The viewer closing without main marking the panel dirty
ViewerQuit_clean ==
    /\ pc = "viewer"
    /\ vfile' = 0
    /\ vwin_height' = 0
    /\ line_offsets' = <<>>
    /\ rpos' = 0
    /\ pc' = "draw"
    /\ alert' = FALSE
    /\ UNCHANGED <<fs, screenvars, dirvars, rendered>>

\* 'q' or Escape in the viewer: back in main, which marks the panel dirty
ViewerQuit ==
    /\ pc = "viewer"
    /\ vfile' = 0
    /\ vwin_height' = 0
    /\ line_offsets' = <<>>
    /\ rpos' = 0
    /\ dirty' = TRUE
    /\ pc' = "draw"
    /\ alert' = FALSE
    /\ UNCHANGED <<fs, screenvars, selected, scroll_offset, dirents,
                   path, rendered>>

\* any other key in the viewer
ViewerKeyOther ==
    /\ pc = "viewer"
    /\ alert' = FALSE
    /\ UNCHANGED <<fs, screenvars, dirvars, rendered, pc, viewvars>>

(***************************************************************************)
(* Specifications                                                          *)
(***************************************************************************)
Next ==
    \/ DirDraw
    \/ scroll_down
    \/ scroll_up
    \/ EnterParent
    \/ EnterDir
    \/ EnterNone
    \/ EnterErr
    \/ EnterFileFails
    \/ EnterFile
    \/ DirKeyResize
    \/ DirKeyQuit
    \/ DirKeyOther
    \/ ViewerScrollDown
    \/ ViewerScrollUp
    \/ ViewerResize
    \/ ViewerQuit
    \/ ViewerKeyOther

Spec == Init /\ [][Next]_vars

\* The panel with a terminal that is never resized: every key of the main
\* loop but KEY_RESIZE, and no viewer.
NextFixedCap ==
    \/ DirDraw
    \/ scroll_down
    \/ scroll_up
    \/ EnterParent
    \/ EnterDir
    \/ EnterNone
    \/ EnterErr
    \/ EnterFileFails
    \/ DirKeyQuit
    \/ DirKeyOther

SpecFixedCap == Init /\ [][NextFixedCap]_vars

\* Scrolling through files with a line about as long as a chunk, in a
\* terminal that is never resized.
NextLongLines ==
    \/ DirDraw
    \/ scroll_down
    \/ scroll_up
    \/ EnterLongFile
    \/ ViewerScrollDown
    \/ ViewerScrollUp
    \/ ViewerQuit
    \/ ViewerKeyOther

SpecLongLines == Init /\ [][NextLongLines]_vars

(***************************************************************************)
(* Properties of the directory panel                                       *)
(***************************************************************************)
\* The length of the panel's backing sequence: 0 while a read error is stored.
ListLen == IF dirents.ok THEN Len(dirents.list) ELSE 0

\* C1: with a terminal that is never resized (capacity = window height - 2,
\* at least 1), after every Up, Down and directory load: a non-empty listing
\* has 0 <= scroll_offset <= selected < scroll_offset + capacity and
\* selected <= length - 1; an empty listing or a failed load has
\* selected = 0 and scroll_offset = 0.
C1_ViewportInvariant ==
    IF ListLen > 0
    THEN /\ 0 <= scroll_offset
         /\ scroll_offset <= selected
         /\ selected < scroll_offset + view_height
         /\ selected <= ListLen - 1
    ELSE selected = 0 /\ scroll_offset = 0

\* C1 witness: the selection was moved down to the last entry of a listing
\* longer than the window, which scrolled with it.
C1_Witness ==
    /\ ListLen > view_height
    /\ view_height >= 1
    /\ selected = ListLen - 1
    /\ scroll_offset = selected - view_height + 1
    /\ scroll_offset > 0

\* C2 (as claimed): a resize of the panel leaves selected inside the window,
\* scroll_offset having advanced by the least amount that restores
\* selected < scroll_offset + capacity, and not at all if nothing was broken.
C2_ResizeRestoresWindow ==
    [][ (DirKeyResize /\ ListLen > 0)
            => /\ selected' < scroll_offset' + view_height'
               /\ scroll_offset' =
                     Max2(scroll_offset, selected' - view_height' + 1) ]_vars

\* Any step that loads a directory from the main loop.
LoadStep == EnterParent \/ EnterDir \/ (EnterErr /\ HasParent(path))

\* The named entries of the listing are exactly the children of the path, in
\* ascending byte-wise order of file name, after a ParentDir item at index 0.
ListingIsParentThenSorted(d, p) ==
    /\ d.ok
    /\ Len(d.list) = Cardinality(Children(fs, p)) + 1
    /\ d.list[1] = ParentDir(Parent(p))
    /\ \A i \in 2..Len(d.list) :
          d.list[i].tag = "Entry" /\ d.list[i].path \in Children(fs, p)
    /\ \A i \in 2..(Len(d.list) - 1) :
          LexLess(FileName(d.list[i].path), FileName(d.list[i + 1].path))

\* C7 (as claimed): right after a successful load of a directory that has a
\* parent and at least one named entry, the listing is the ParentDir item and
\* then the entries in sorted order, and the highlighted row is the first
\* named entry.
C7_FirstNamedEntryHighlighted ==
    [][ (LoadStep /\ dirents'.ok /\ HasParent(path') /\ Len(dirents'.list) >= 2)
            => /\ ListingIsParentThenSorted(dirents', path')
               /\ Highlighted(dirents', selected', scroll_offset', view_height') = {1}
               /\ dirents'.list[selected' + 1] = dirents'.list[2] ]_vars

\* C7 (amended): right after such a load the listing is the ParentDir item and
\* then the entries in sorted order, and the highlighted row is index 0, the
\* ParentDir item; the first named entry is at index 1, not highlighted.
C7_ParentLinkHighlighted ==
    [][ (LoadStep /\ dirents'.ok /\ HasParent(path') /\ Len(dirents'.list) >= 2)
            => /\ ListingIsParentThenSorted(dirents', path')
               /\ selected' = 0
               /\ Highlighted(dirents', selected', scroll_offset', view_height') = {0}
               /\ dirents'.list[selected' + 1].tag = "ParentDir" ]_vars

\* C7 witness: /t (b.txt, a.txt, c) has just been loaded by an Enter and not
\* yet drawn: the panel still shows the directory Enter was pressed in.
C7_Witness ==
    /\ pc = "draw"
    /\ dirty
    /\ path = <<Name_t>>
    /\ rendered # <<>>
    /\ rendered[1].path # path
    /\ dirents.ok
    /\ dirents.list = << ParentDir(<<>>), Entry(<<Name_t, Name_a_txt>>),
                         Entry(<<Name_t, Name_b_txt>>), Entry(<<Name_t, Name_c>>) >>

\* C9: Up at selected = 0, Down at the last valid index, and any Up or Down
\* on a listing of length 0 (empty root or failed load) leave selected,
\* scroll_offset and dirty unchanged and raise the alert; no Up or Down
\* changes the listing or the path.
C9_BoundaryAttempts ==
    [][ /\ (scroll_up \/ scroll_down) => (dirents' = dirents /\ path' = path)
        /\ (scroll_up /\ (selected = 0 \/ ListLen = 0))
              => (alert' /\ UNCHANGED <<selected, scroll_offset, dirty>>)
        /\ (scroll_down /\ (selected = ListLen - 1 \/ ListLen = 0))
              => (alert' /\ UNCHANGED <<selected, scroll_offset, dirty>>) ]_vars

\* C9 witness: the alert was raised with the selection on the last entry of a
\* listing of several entries, which only a rejected Down does.
C9_Witness ==
    /\ pc = "draw"
    /\ alert
    /\ ~dirty
    /\ ListLen > 1
    /\ selected = ListLen - 1

(***************************************************************************)
(* Properties of the file viewer                                           *)
(***************************************************************************)
\* Most scrolls a round trip is tried with.
MaxScrolls == 6

InViewer == pc = "viewer"

FileThreeId == CHOOSE k \in FileIds : Files[k] = FileThree

\* The offsets at which a line of file k starts.
IsLineStart(k, o) == o = 0 \/ (o - 1) \in NewlineAt[k]

\* The offset just past the line that holds byte o: the byte after the first
\* '\n' at or after o, or the file length if there is none.
LineEnd(k, o) ==
    LET nl == { i \in NewlineAt[k] : i >= o }
    IN  IF nl = {} THEN FileLen(k) ELSE SetMin(nl) + 1

\* No line of file k, counting its newline, is longer than the chunk the
\* backward scan reads.
NoLongLine(k) ==
    \A o \in 0..FileLen(k) : IsLineStart(k, o) => LineEnd(k, o) - o <= ChunkSize

\* n scroll-forward operations, and whether all of them succeeded
RECURSIVE ForwardBy(_, _, _)
ForwardBy(k, offs, n) ==
    IF n = 0 THEN [ok |-> TRUE, offs |-> offs]
    ELSE LET r == viewer_scroll_down(k, offs)
         IN  IF r.beep THEN [ok |-> FALSE, offs |-> offs]
             ELSE ForwardBy(k, r.offs, n - 1)

\* n scroll-backward operations
RECURSIVE BackwardBy(_, _, _)
BackwardBy(k, offs, n) ==
    IF n = 0 THEN offs
    ELSE BackwardBy(k, viewer_scroll_up(k, offs, 0).offs, n - 1)

\* C3 (as claimed): in a file with no line longer than the chunk, k successful
\* scrolls forward followed by k scrolls backward give back the window they
\* started from, offset for offset.
C3_ScrollRoundTrip ==
    (InViewer /\ NoLongLine(vfile)) =>
        \A n \in 1..MaxScrolls :
            LET f == ForwardBy(vfile, line_offsets, n)
            IN  f.ok => BackwardBy(vfile, f.offs, n) = line_offsets

\* C4 (as claimed): a resize to fewer rows followed by a resize back to the
\* rows before gives a window of the same length with the same offsets.
C4_ResizeRoundTrip ==
    InViewer =>
        \A rows \in Rows :
            LET h    == calc_extents(rows) - 2
                down == viewer_resize(vfile, line_offsets, rpos, h)
                back == viewer_resize(vfile, down.offs, down.pos, vwin_height)
            IN  h < vwin_height => back.offs = line_offsets

\* C5 (as claimed): in a file with no line longer than the chunk, the offsets
\* are strictly increasing and every consecutive pair delimits exactly one
\* line: the first is 0 or the byte after a '\n', the second is the byte
\* after the first '\n' at or after it, or the file length.
C5_WindowDelimitsLines ==
    (InViewer /\ NoLongLine(vfile)) =>
        \A i \in 1..(Len(line_offsets) - 1) :
            /\ line_offsets[i] < line_offsets[i + 1]
            /\ IsLineStart(vfile, line_offsets[i])
            /\ line_offsets[i + 1] = LineEnd(vfile, line_offsets[i])

\* C6 (as claimed): the window holds at most capacity + 1 offsets, and fewer
\* only if its trailing offset is the file length.
C6_WindowLength ==
    InViewer =>
        /\ Len(line_offsets) <= vwin_height + 1
        /\ Len(line_offsets) < vwin_height + 1
              => Last(line_offsets) = FileLen(vfile)

\* C8 (as claimed): a scroll forward that reads zero bytes at the trailing
\* offset, and a scroll backward at o0 = 0, leave the window unchanged and
\* raise the alert.
C8_RejectedScrollAlerts ==
    [][ /\ (ViewerScrollDown /\ read_line(vfile, Last(line_offsets)) = 0)
              => (line_offsets' = line_offsets /\ alert')
        /\ (ViewerScrollUp /\ line_offsets[1] = 0)
              => (line_offsets' = line_offsets /\ alert') ]_vars

\* C10: "one\n" "two\n" "three" opened with 2 rows has the window [0,4,8];
\* a scroll forward gives [4,8,13], whose trailing offset is the file length;
\* a further scroll forward is rejected with no change; a scroll backward
\* from there gives [0,4,8], and a second one leaves [0,4,8].
C10_ThreeLineScenario ==
    [][ /\ (EnterFile /\ vfile' = FileThreeId /\ vwin_height' = 2)
              => line_offsets' = <<0, 4, 8>>
        /\ (ViewerScrollDown /\ vfile = FileThreeId /\ line_offsets = <<0, 4, 8>>)
              => (line_offsets' = <<4, 8, 13>> /\ FileLen(vfile) = 13 /\ ~alert')
        /\ (ViewerScrollDown /\ vfile = FileThreeId /\ line_offsets = <<4, 8, 13>>)
              => (line_offsets' = <<4, 8, 13>> /\ alert')
        /\ (ViewerScrollUp /\ vfile = FileThreeId /\ line_offsets = <<4, 8, 13>>)
              => line_offsets' = <<0, 4, 8>>
        /\ (ViewerScrollUp /\ vfile = FileThreeId /\ line_offsets = <<0, 4, 8>>)
              => line_offsets' = <<0, 4, 8>> ]_vars

\* C10 witness: the three-line file in a window of 2 rows, back at [0,4,8]
\* with the reader just past line "one", where only a scroll backward from
\* [4,8,13] leaves it.
C10_Witness ==
    /\ InViewer
    /\ vfile = FileThreeId
    /\ vwin_height = 2
    /\ line_offsets = <<0, 4, 8>>
    /\ rpos = 4


(***************************************************************************)
(* Loading a directory                                                     *)
(***************************************************************************)
\* C11: every load, whether the new listing was read or the read failed,
\* leaves selected = 0, scroll_offset = 0 and dirty set, so that the rows the
\* next draw paints start at index 0 of the listing.
C11_LoadResetsViewport ==
    [][ LoadStep =>
          /\ selected' = 0
          /\ scroll_offset' = 0
          /\ dirty' = TRUE
          /\ LET visible == VisibleRows(dirents', scroll_offset', view_height')
             IN  visible # {} => SetMin(visible) = 0
          /\ (dirents'.ok /\ dirents'.list # <<>> /\ view_height' > 0)
                => 0 \in VisibleRows(dirents', scroll_offset', view_height')
      ]_vars

\* Enter on the last entry of /t, painted with the window scrolled, has loaded
\* /t/c: the viewport is back at the top.
C11_Witness ==
    /\ pc = "draw"
    /\ dirty
    /\ path = <<Name_t, Name_c>>
    /\ rendered # <<>>
    /\ rendered[1].path = <<Name_t>>
    /\ rendered[1].selected > 0
    /\ rendered[1].scroll_offset > 0
    /\ selected = 0
    /\ scroll_offset = 0

\* C12: a listing that was read holds a ParentDir item if and only if the
\* path has a parent, and then at index 0; the other items are the entries of
\* the directory, each once, in ascending byte-wise order of file name.  A
\* failed load stores no items at all.
C12_ListingOrder ==
    IF dirents.ok
    THEN LET n == Len(dirents.list)
             first == IF HasParent(path) THEN 2 ELSE 1
         IN  /\ path \in fs.readable
             /\ HasParent(path) =>
                   n >= 1 /\ dirents.list[1] = ParentDir(Parent(path))
             /\ \A i \in first..n : dirents.list[i].tag = "Entry"
             /\ { dirents.list[i].path : i \in first..n } = Children(fs, path)
             /\ n - first + 1 = Cardinality(Children(fs, path))
             /\ \A i \in first..(n - 1) :
                   LexLess(FileName(dirents.list[i].path),
                           FileName(dirents.list[i + 1].path))
    ELSE path \notin fs.readable /\ dirents.list = <<>>

\* The listing of /t, read after Enter on t in the root, is on screen:
\* [..], a.txt, b.txt, c.
C12_Witness ==
    /\ pc = "getch"
    /\ path = <<Name_t>>
    /\ dirents.ok
    /\ rendered[1].dirents = dirents
    /\ [i \in 1..Len(dirents.list) |-> dirents.list[i].tag]
          = <<"ParentDir", "Entry", "Entry", "Entry">>
    /\ [i \in 2..4 |-> FileName(dirents.list[i].path)]
          = [i \in 2..4 |-> <<Name_a_txt, Name_b_txt, Name_c>>[i - 1]]

(***************************************************************************)
(* Enter on a read error                                                   *)
(***************************************************************************)
\* C13 (as claimed): Enter while a read error is stored loads the panel's
\* own path again, so the path is unchanged by the key press.
C13_EnterRetriesFailedLoad ==
    [][ EnterErr => path' = path ]_vars

\* C13 (amended): Enter while a read error is stored loads the parent of the
\* panel's path: the path becomes its parent, the parent's listing is read
\* and the viewport is reset.  When the path has no parent the key changes
\* nothing in the panel.  The failed path itself is never loaded again.
C13_EnterOnErrorLoadsParent ==
    [][ EnterErr =>
          IF HasParent(path)
          THEN /\ path' = Parent(path)
               /\ path' # path
               /\ \E order \in ReadDirOrders(fs, path') :
                     dirents' = reload(fs, path', order)
               /\ selected' = 0 /\ scroll_offset' = 0 /\ dirty' = TRUE
          ELSE UNCHANGED dirvars
      ]_vars

\* The read error of /L was on screen and Enter has loaded the root.
C13_Witness ==
    /\ pc = "draw"
    /\ dirty
    /\ rendered # <<>>
    /\ rendered[1].path = <<Name_Lock>>
    /\ ~rendered[1].dirents.ok
    /\ path = <<>>
    /\ dirents.ok

(***************************************************************************)
(* The viewer as a modal                                                   *)
(***************************************************************************)
\* The panel's selected, scroll_offset, path and listing are the ones of the
\* last draw.
PanelAsRendered ==
    /\ rendered # <<>>
    /\ rendered[1].selected = selected
    /\ rendered[1].scroll_offset = scroll_offset
    /\ rendered[1].path = path
    /\ rendered[1].dirents = dirents

\* C14: from Enter on a file until the viewer closes, no key and no resize
\* changes the panel's selected, scroll_offset, path or listing; when the
\* viewer closes, by q/Escape or at once because the file could not be
\* opened, the panel has the state that was on screen before the Enter,
\* except that dirty is set.
C14_ModalLeavesPanelAlone ==
    [][ (pc = "viewer" \/ EnterFile \/ EnterFileFails) =>
          /\ UNCHANGED <<selected, scroll_offset, path, dirents>>
          /\ PanelAsRendered'
          /\ (pc' # "viewer") => (dirty' = TRUE /\ pc' = "draw")
      ]_vars

\* The viewer was closed after the terminal changed width under it: the
\* panel's window is not where main would put it, and the panel's state is
\* the one on screen, with dirty set.
C14_Witness ==
    /\ pc = "draw"
    /\ dirty
    /\ NoViewer
    /\ PanelAsRendered
    /\ selected > 0
    /\ win_startx # scr_cols \div 2
    /\ scr_rows # rendered[1].view_height + 2

(***************************************************************************)
(* Resizing the terminal under the viewer                                  *)
(***************************************************************************)
\* The panel's window has the height of the terminal.
PanelHeightFollowsTerminal == win_height = scr_rows

\* The panel's window is the right half of the terminal, as main lays it out.
PanelIsRightHalf ==
    /\ win_startx = scr_cols \div 2
    /\ win_width = scr_cols - scr_cols \div 2

\* C15 (as claimed): a resize that arrives while the viewer is open lays out
\* the panel's region as well, so that when the viewer closes the panel is
\* the right half of the terminal as it is now and its capacity is the one
\* derived from the terminal's current height.
C15_ViewerResizeLaysOutPanel ==
    [][ (pc = "viewer" /\ pc' # "viewer") =>
          /\ PanelHeightFollowsTerminal'
          /\ view_height' = scr_rows' - 2
          /\ PanelIsRightHalf'
      ]_vars

(***************************************************************************)
(* Directory styling                                                       *)
(***************************************************************************)
\* The entry is a directory whose contents fs::read_dir can list.
CanBeOpened(f, p) == p \in f.dirs /\ p \in f.readable

\* C16 (as claimed): is_openable_dir is true of exactly the entries that are
\* directories which can be opened, and every entry row on screen is in the
\* directory colour and in square brackets if and only if its entry is such
\* a directory; an unreadable directory is painted as a plain name.
C16_StyledIffOpenable ==
    (rendered # <<>> /\ rendered[1].dirents.ok) =>
        \A i \in DOMAIN rendered[1].rows :
            LET item == rendered[1].dirents.list[i + 1]
                row  == rendered[1].rows[i]
            IN  item.tag = "Entry" =>
                  /\ is_openable_dir(fs, item.path) = CanBeOpened(fs, item.path)
                  /\ row.dir_colour = CanBeOpened(fs, item.path)
                  /\ row.text = IF CanBeOpened(fs, item.path)
                                THEN <<91>> \o FileName(item.path) \o <<93>>
                                ELSE FileName(item.path)

(***************************************************************************)
(* Growing the viewer's window                                             *)
(***************************************************************************)
\* Filling as view_file_modal fills the window when it opens the file, but
\* continuing the window offs: while there are fewer than h + 1 offsets and
\* a line starts at the trailing one, append the trailing offset plus that
\* line's length in bytes.
RECURSIVE OpenFill(_, _, _)
OpenFill(k, offs, h) ==
    IF Len(offs) >= h + 1 \/ read_line(k, Last(offs)) = 0 THEN offs
    ELSE OpenFill(k, Append(offs, Last(offs) + read_line(k, Last(offs))), h)

\* C17 (as claimed): a resize of the viewer to a higher window keeps the
\* offsets it had and appends offsets as filling from the trailing offset
\* would: each appended offset is the offset before it plus the length of the
\* line that starts there.
C17_ResizeUpExtends ==
    [][ (ViewerResize /\ vwin_height' > vwin_height) =>
          /\ SubSeq(line_offsets', 1, Len(line_offsets)) = line_offsets
          /\ line_offsets' = OpenFill(vfile, line_offsets, vwin_height')
      ]_vars

(***************************************************************************)
(* The backward scan                                                       *)
(***************************************************************************)
\* The start of the line that ends just before the line start o > 0.
PrecedingLineStart(k, o) ==
    LET nl == { i \in NewlineAt[k] : i < o - 1 }
    IN  IF nl = {} THEN 0 ELSE SetMax(nl) + 1

RECURSIVE StrictlyIncreasing(_)
StrictlyIncreasing(s) ==
    Len(s) < 2 \/ (s[1] < s[2] /\ StrictlyIncreasing(Tail(s)))

\* C18: scrolling back from a window whose leading offset o0 is positive,
\* the new leading offset is the byte after the last '\n' of the chunk
\* [o0 - 1 - min(ChunkSize, o0 - 1), o0 - 1), or 0 if the chunk holds none.
\* That is the start of the line before o0 when that line, without its
\* newline, is shorter than ChunkSize or is the first line of the file.  When
\* a line that is not the first is longer, the new leading offset is 0: the
\* window still increases strictly, but its first two offsets no longer
\* delimit one line.
C18_BackwardScan ==
    [][ (ViewerScrollUp /\ line_offsets[1] > 0) =>
          LET o0          == line_offsets[1]
              chunk_len   == Min2(ChunkSize, o0 - 1)
              chunk_start == o0 - 1 - chunk_len
              inChunk     == { i \in NewlineAt[vfile] :
                                  chunk_start <= i /\ i < o0 - 1 }
              found       == line_offsets'[1]
              prevStart   == PrecedingLineStart(vfile, o0)
              prevLen     == o0 - 1 - prevStart
          IN  /\ found = IF inChunk = {} THEN 0
                         ELSE chunk_start + (SetMax(inChunk) - chunk_start) + 1
              /\ IsLineStart(vfile, o0)
              /\ (prevLen < ChunkSize \/ prevStart = 0) => found = prevStart
              /\ (prevLen > ChunkSize /\ prevStart > 0) =>
                    /\ found = 0
                    /\ line_offsets'[2] = o0
                    /\ StrictlyIncreasing(line_offsets')
                    /\ LineEnd(vfile, line_offsets'[1]) # line_offsets'[2]
      ]_vars

\* Scrolled back over the long second line of FileLong: the window leads
\* with 0 and goes on with the start of the line after the long one.
C18_Witness ==
    /\ pc = "viewer"
    /\ Files[vfile] = FileLong
    /\ Len(line_offsets) >= 2
    /\ line_offsets[1] = 0
    /\ line_offsets[2] = ChunkSize + 4

(***************************************************************************)
(* Scrolling the panel by one                                              *)
(***************************************************************************)
\* C19 (as claimed): an Up or Down that moves the selection moves it by
\* exactly one; scroll_offset moves by one in the same direction if the new
\* selected is outside [scroll_offset, scroll_offset + capacity) and stays
\* otherwise; dirty is set.
C19_SingleStepScroll ==
    [][ ((scroll_down \/ scroll_up) /\ selected' # selected) =>
          LET d       == selected' - selected
              outside == \/ selected' < scroll_offset
                         \/ selected' >= scroll_offset + view_height
          IN  /\ d \in {-1, 1}
              /\ scroll_offset' - scroll_offset = IF outside THEN d ELSE 0
              /\ dirty' = TRUE
      ]_vars

(***************************************************************************)
(* The dirty flag                                                          *)
(***************************************************************************)
\* What the last draw painted is the panel as it is now.
RenderedIsCurrent ==
    /\ PanelAsRendered
    /\ rendered[1].view_height = view_height
    /\ rendered[1].rows =
          DrawnRows(fs, dirents, selected, scroll_offset, view_height)

\* C20: the panel is painted only when dirty is set, and painting clears it;
\* every key of the main loop that changes selected, scroll_offset, path, the
\* listing or the capacity sets dirty; so whenever the main loop waits for a
\* key, dirty is clear and what is on screen is the panel's current path,
\* listing, selected, scroll_offset and capacity.  A key that is refused with
\* a beep or is not recognised leaves dirty clear, and the draw that follows
\* paints nothing.
C20_DirtyProtocol ==
    [][ /\ (rendered' # rendered) => (DirDraw /\ dirty)
        /\ (DirDraw /\ dirty) => (~dirty' /\ RenderedIsCurrent')
        /\ (DirDraw /\ ~dirty) => UNCHANGED <<rendered, dirty>>
        /\ (pc = "getch" /\
              <<selected, scroll_offset, path, dirents, view_height>>'
                  # <<selected, scroll_offset, path, dirents, view_height>>)
             => dirty' = TRUE
        /\ (pc' = "getch") => (~dirty' /\ RenderedIsCurrent')
        /\ (pc = "getch" /\ (alert' \/ DirKeyOther))
             => (~dirty' /\ UNCHANGED <<dirvars, view_height, rendered>>)
      ]_vars

\* The main loop waits for a key after Down was refused on the last entry of
\* a listing that had scrolled: nothing was repainted and the screen is
\* current.
C20_Witness ==
    /\ pc = "getch"
    /\ alert
    /\ ~dirty
    /\ RenderedIsCurrent
    /\ ListLen > 1
    /\ selected = ListLen - 1
    /\ scroll_offset > 0

(***************************************************************************)
(* The viewer's deque                                                      *)
(***************************************************************************)
\* C21: while the viewer is open its deque of offsets is never empty, for
\* every file, the empty one included, and every sequence of keys and
\* resizes: it starts as [0], a scroll takes one offset away and adds one,
\* and a resize truncates to at least one offset.  So front() and back()
\* always have an element to hand out.
C21_DequeNeverEmpty ==
    InViewer =>
        /\ Len(line_offsets) >= 1
        /\ vwin_height >= 1
        /\ Len(line_offsets) <= 1 + vwin_height

\* The empty file is open, the terminal was resized under the viewer and a
\* scroll was refused: the deque is still [0].
C21_Witness ==
    /\ InViewer
    /\ Files[vfile] = FileEmpty
    /\ alert
    /\ scr_rows # rendered[1].view_height + 2
    /\ line_offsets = <<0>>

(***************************************************************************)
(* Scrolling back and forth                                                *)
(***************************************************************************)
\* C22 (as claimed): from every window of the open viewer whose leading
\* offset is positive, so that a scroll backward succeeds, the scroll forward
\* that follows it succeeds too and gives the window back, offset for offset.
C22_BackThenForthIsIdentity ==
    (InViewer /\ line_offsets[1] > 0) =>
        LET up   == viewer_scroll_up(vfile, line_offsets, rpos)
            down == viewer_scroll_down(vfile, up.offs)
        IN  /\ ~down.beep
            /\ down.offs = line_offsets

(***************************************************************************)
(* The reader and the window                                               *)
(***************************************************************************)
\* expand_rows, called for a window of h rows, reads at least one line.
ExpandReads(offs, h) == 1 + h - Len(offs) > 0

\* C23 (as claimed): whenever expand_rows reads a line, when the file is
\* opened and on every resize, the reader is at the window's trailing offset,
\* so that the line read is the one that starts there: the offset appended
\* first, if any, is the end of that line.
C23_ReaderAtTrailingOffset ==
    [][ /\ EnterFile => rpos' = Last(line_offsets')
        /\ (ViewerResize /\ ExpandReads(line_offsets, vwin_height')) =>
              /\ rpos = Last(line_offsets)
              /\ Len(line_offsets') > Len(line_offsets) =>
                    line_offsets'[Len(line_offsets) + 1]
                        = LineEnd(vfile, Last(line_offsets))
      ]_vars

====
